---- MODULE Spec2Model ----
(***************************************************************************)
(* Cosquin Rock lineup: the time normalizer of src/lib/data.ts, the URL    *)
(* codec of src/lib/url-state.ts and the selection state of                *)
(* src/components/TimetableApp.tsx.                                        *)
(*                                                                         *)
(* A Date is modelled as the number of whole minutes since the epoch, in   *)
(* UTC.  A string is a sequence of one-character strings.  A JavaScript    *)
(* Set is a sequence without duplicates (a Set iterates in insertion       *)
(* order).                                                                 *)
(***************************************************************************)
EXTENDS Integers, Sequences, FiniteSets, TLC

VARIABLES
  rawEvent,        \* the raw record handed to parseEvents: [startAt, endAt]
  festivalEvent,   \* the FestivalEvent parseEvents built from it, or NoEvent
  gridRender,      \* the times drawn for it: TimeAxis labels, EventBlock times
  codecSearch,     \* codec calls: window.location.search, as URLSearchParams
  codecArgs,       \* codec calls: the arguments of updateURL
  codecDecoded,    \* codec calls: what the three readers returned last
  codecPc,         \* codec calls: "start", "decoded", "encoded", "roundtrip"
  href,            \* URL writes: window.location.href, as the parts of a URL
  schedules,       \* TimetableApp: the events of the schedules prop
  location,        \* the query of window.location, as URLSearchParams
  historyLength,   \* window.history.length
  mounted,        \* TimetableApp: useState(false)
  hasHydrated,     \* TimetableApp: hasHydratedRef.current
  selectedIds,     \* TimetableApp: useState(new Set())
  readOnly,        \* TimetableApp: useState(false)
  showOnlySelected,\* TimetableApp: useState(false)
  activeDay,       \* TimetableApp: useState(1)
  viewMode,        \* TimetableApp: useState('auto')
  isMobile,        \* useIsMobile()
  pendingEffect,   \* the passive effects React has yet to run
  processingState, \* ActionPanel: useState('idle')
  toastInfo,       \* ActionPanel: the type of the toast set, or "none"
  shareUrl,        \* ActionPanel: the query of useState(''), as URLSearchParams
  rawData,        \* the raw records of data.json, in file order
  daySchedules,    \* what getDaySchedules returned, or NotCalled
  icsFile          \* the calendar handleExportICS downloaded, or NotExported

timeVars == <<rawEvent, festivalEvent, gridRender>>

codecVars == <<codecSearch, codecArgs, codecDecoded, codecPc, href>>

storeVars == <<selectedIds, readOnly, showOnlySelected>>

viewVars == <<activeDay, viewMode, isMobile>>

panelVars == <<processingState, toastInfo>>

scheduleVars == <<rawData, daySchedules, icsFile>>

\* what no click and no effect of TimetableApp changes
pageVars == <<schedules, historyLength>>

appVars ==
  <<schedules, location, historyLength, mounted, hasHydrated, selectedIds,
    readOnly, showOnlySelected, activeDay, viewMode, isMobile, pendingEffect,
    processingState, toastInfo, shareUrl>>

vars ==
  <<rawEvent, festivalEvent, gridRender, codecSearch, codecArgs, codecDecoded,
    codecPc, href, schedules, location, historyLength, mounted, hasHydrated, selectedIds,
    readOnly, showOnlySelected, activeDay, viewMode, isMobile, pendingEffect,
    processingState, toastInfo, shareUrl, rawData, daySchedules, icsFile>>

----------------------------------------------------------------------------
(* Bounds *)

\* raw records start within this many days of the epoch
StartDays == 1

\* the longest value of the ids query parameter of a loaded URL
MaxIdsParamLen == 3

\* the most ids handed to updateURL in a codec call
MaxIds == 2

\* the end of a raw record is 1 minute or a multiple of this many minutes
\* after its start, below 24 hours
DurationStep == 60

\* the most raw records of a data.json handed to getDaySchedules
MaxRecords == 3

MaxLineup == 2

MinutesPerDay == 24 * 60

----------------------------------------------------------------------------
(* src/lib/data.ts: the time normalizer *)

GRID_START_HOUR == 14

GRID_START_MINUTES == GRID_START_HOUR * 60

UTC_OFFSET_HOURS == -3

getUTCHours(date) == (date \div 60) % 24

getUTCMinutes(date) == date % 60

\* the comparison with the grid start made inclusive: 14:00 is shifted too
utcToLocalMinutes_ShiftsGridStart(date) ==
  LET utcHours == getUTCHours(date)
      utcMinutes == getUTCMinutes(date)
      shifted == utcHours + UTC_OFFSET_HOURS
      localHours == IF shifted < 0 THEN shifted + 24 ELSE shifted
      totalMinutes == localHours * 60 + utcMinutes
  IN  IF totalMinutes <= GRID_START_MINUTES
        THEN totalMinutes + 24 * 60
        ELSE totalMinutes

\* the midnight crossover left out: local clock minutes as they are
utcToLocalMinutes_NoCrossover(date) ==
  LET utcHours == getUTCHours(date)
      utcMinutes == getUTCMinutes(date)
      shifted == utcHours + UTC_OFFSET_HOURS
      localHours == IF shifted < 0 THEN shifted + 24 ELSE shifted
  IN  localHours * 60 + utcMinutes

utcToLocalMinutes(date) ==
  LET utcHours == getUTCHours(date)
      utcMinutes == getUTCMinutes(date)
      shifted == utcHours + UTC_OFFSET_HOURS
      localHours == IF shifted < 0 THEN shifted + 24 ELSE shifted
      totalMinutes == localHours * 60 + utcMinutes
  IN  IF totalMinutes < GRID_START_MINUTES
        THEN totalMinutes + 24 * 60
        ELSE totalMinutes

normalizeMinutes(minutes) == minutes - GRID_START_MINUTES

NoEvent == [built |-> FALSE]

\* the duration taken from the end to the start
parseEvent_DurationReversed(raw) ==
  LET startMinutes == normalizeMinutes(utcToLocalMinutes(raw.startAt))
      endMinutes == normalizeMinutes(utcToLocalMinutes(raw.endAt))
  IN  [built |-> TRUE,
       startAt |-> raw.startAt,
       endAt |-> raw.endAt,
       startMinutes |-> startMinutes,
       endMinutes |-> endMinutes,
       duration |-> startMinutes - endMinutes]

\* the time fields of the FestivalEvent parseEvents builds from one raw record
parseEvent(raw) ==
  LET startMinutes == normalizeMinutes(utcToLocalMinutes(raw.startAt))
      endMinutes == normalizeMinutes(utcToLocalMinutes(raw.endAt))
  IN  [built |-> TRUE,
       startAt |-> raw.startAt,
       endAt |-> raw.endAt,
       startMinutes |-> startMinutes,
       endMinutes |-> endMinutes,
       duration |-> endMinutes - startMinutes]

----------------------------------------------------------------------------
(* Strings and JavaScript built-ins used by src/lib/url-state.ts *)

Range(seq) == {seq[i] : i \in 1..Len(seq)}

Digits == <<"0", "1", "2", "3", "4", "5", "6", "7", "8", "9">>

\* n.toString() for a natural number
RECURSIVE toString(_)
toString(n) ==
  IF n < 10
    THEN <<Digits[n + 1]>>
    ELSE toString(n \div 10) \o <<Digits[(n % 10) + 1]>>

COMMA == ","

\* characters of an ids parameter value
Chars == {"a", "b", COMMA}

StringsUpTo(n) == UNION {[1..k -> Chars] : k \in 0..n}

\* String.prototype.split(','): the pieces between the commas, empty ones too
RECURSIVE split(_)
split(str) ==
  IF \A i \in 1..Len(str) : str[i] # COMMA
    THEN <<str>>
    ELSE LET i == CHOOSE k \in 1..Len(str) :
                    /\ str[k] = COMMA
                    /\ \A j \in 1..(k - 1) : str[j] # COMMA
         IN  <<SubSeq(str, 1, i - 1)>> \o split(SubSeq(str, i + 1, Len(str)))

\* Array.prototype.filter(Boolean) on strings: the empty string is falsy
filterBoolean(arr) == SelectSeq(arr, LAMBDA piece : piece # <<>>)

\* new Set(iterable): first occurrences, in order
RECURSIVE newSet(_)
newSet(arr) ==
  IF arr = <<>>
    THEN <<>>
    ELSE LET front == newSet(SubSeq(arr, 1, Len(arr) - 1))
             last == arr[Len(arr)]
         IN  IF last \in Range(front) THEN front ELSE Append(front, last)

\* the ids concatenated with nothing between them
RECURSIVE join_NoSeparator(_)
join_NoSeparator(arr) ==
  IF arr = <<>> THEN <<>> ELSE arr[1] \o join_NoSeparator(Tail(arr))

\* Array.prototype.join(',')
RECURSIVE join(_)
join(arr) ==
  IF arr = <<>>
    THEN <<>>
    ELSE IF Len(arr) = 1
      THEN arr[1]
      ELSE arr[1] \o <<COMMA>> \o join(Tail(arr))

\* URLSearchParams: a function from the names present to their values
NoParams == [name \in {} |-> <<>>]

paramsHas(params, name) == name \in DOMAIN params

paramsSet(params, name, value) ==
  [k \in DOMAIN params \cup {name} |-> IF k = name THEN value ELSE params[k]]

\* a delete that empties the whole query
paramsDelete_Clears(params, name) == NoParams

paramsDelete(params, name) ==
  [k \in DOMAIN params \ {name} |-> params[k]]

----------------------------------------------------------------------------
(* src/lib/url-state.ts *)

\* the pieces of ids as split leaves them, the empty ones kept
getSelectedIdsFromURL_KeepsEmpty(search) ==
  IF ~paramsHas(search, "ids") \/ search["ids"] = <<>>
    THEN <<>>
    ELSE newSet(split(search["ids"]))

\* !ids holds for null (parameter absent) and for the empty string
getSelectedIdsFromURL(search) ==
  IF ~paramsHas(search, "ids") \/ search["ids"] = <<>>
    THEN <<>>
    ELSE newSet(filterBoolean(split(search["ids"])))

isReadOnlyFromURL(search) ==
  paramsHas(search, "view") /\ search["view"] = "shared"

\* the reader expecting another literal than the one updateURL writes
isShowOnlySelectedFromURL_True(search) ==
  paramsHas(search, "filter") /\ search["filter"] = "true"

isShowOnlySelectedFromURL(search) ==
  paramsHas(search, "filter") /\ search["filter"] = "selected"

\* the ids added to the value the parameter already has
updateURL_ids_Appends(search, ids) ==
  IF Len(ids) > 0
    THEN paramsSet(search, "ids",
           IF paramsHas(search, "ids") /\ search["ids"] # <<>>
             THEN search["ids"] \o <<COMMA>> \o join(ids)
             ELSE join(ids))
    ELSE paramsDelete(search, "ids")

updateURL_ids(search, ids) ==
  IF Len(ids) > 0
    THEN paramsSet(search, "ids", join(ids))
    ELSE paramsDelete(search, "ids")

\* the view parameter set but never deleted
updateURL_view_KeepsShared(search, wantShared) ==
  IF wantShared THEN paramsSet(search, "view", "shared") ELSE search

updateURL_view(search, wantShared) ==
  IF wantShared
    THEN paramsSet(search, "view", "shared")
    ELSE paramsDelete(search, "view")

\* the filter parameter written whatever the size of ids
updateURL_filter_IgnoresEmpty(search, ids, wantFilter) ==
  IF wantFilter
    THEN paramsSet(search, "filter", "selected")
    ELSE paramsDelete(search, "filter")

updateURL_filter(search, ids, wantFilter) ==
  IF wantFilter /\ Len(ids) > 0
    THEN paramsSet(search, "filter", "selected")
    ELSE paramsDelete(search, "filter")

\* the query of the URL handed to history.replaceState
updateURL(search, ids, wantShared, wantFilter) ==
  updateURL_filter(
    updateURL_view(updateURL_ids(search, ids), wantShared),
    ids, wantFilter)

\* updateURL on the whole URL: new URL(window.location.href), the changes of
\* its searchParams, and replaceState with url.toString()
updateHref(url, ids, wantShared, wantFilter) ==
  [pathname |-> url.pathname,
   searchParams |-> updateURL(url.searchParams, ids, wantShared, wantFilter),
   hash |-> url.hash]

\* the three readers, as the hydration effect calls them
decodeURL(search) ==
  [selectedIds |-> getSelectedIdsFromURL(search),
   readOnly |-> isReadOnlyFromURL(search),
   showOnlySelected |-> isShowOnlySelectedFromURL(search)]

----------------------------------------------------------------------------
(* src/lib/data.ts: the schedule builder *)

\* const day = raw.day ?? raw.dia ?? 1; a field left out of the raw record is
\* undefined
resolveDay(raw) ==
  IF "day" \in DOMAIN raw
    THEN raw.day
    ELSE IF "dia" \in DOMAIN raw THEN raw.dia ELSE 1

\* the letters of String.prototype.toLowerCase that artist names here hold
toLowerCase(str) ==
  [i \in 1..Len(str) |->
     CASE str[i] = "A" -> "a"
       [] str[i] = "B" -> "b"
       [] str[i] = "Á" -> "á"
       [] OTHER -> str[i]]

\* U+0301, the combining acute accent
COMBINING_ACUTE == "\\u0301"

\* normalize('NFD'): a letter with an accent becomes the letter and the mark
RECURSIVE normalizeNFD(_)
normalizeNFD(str) ==
  IF str = <<>>
    THEN <<>>
    ELSE (CASE str[1] = "á" -> <<"a", COMBINING_ACUTE>>
            [] str[1] = "Á" -> <<"A", COMBINING_ACUTE>>
            [] OTHER -> <<str[1]>>)
           \o normalizeNFD(Tail(str))

\* replace(/[\u0300-\u036f]/g, '')
removeMarks(str) == SelectSeq(str, LAMBDA c : c # COMBINING_ACUTE)

\* the class [a-z0-9]
LowerAlnum ==
  {"a", "b", "c", "d", "e", "f", "g", "h", "i", "j", "k", "l", "m", "n", "o",
   "p", "q", "r", "s", "t", "u", "v", "w", "x", "y", "z"} \cup Range(Digits)

HYPHEN == "-"

\* replace(/[^a-z0-9]+/g, '-'): each run of other characters becomes one hyphen
RECURSIVE replaceRuns(_)
replaceRuns(str) ==
  IF str = <<>>
    THEN <<>>
    ELSE IF str[1] \in LowerAlnum
      THEN <<str[1]>> \o replaceRuns(Tail(str))
      ELSE IF Len(str) > 1 /\ str[2] \notin LowerAlnum
        THEN replaceRuns(Tail(str))
        ELSE <<HYPHEN>> \o replaceRuns(Tail(str))

\* replace(/(^-|-$)/g, ''): a hyphen at the start and one at the end are removed
trimHyphens(str) ==
  LET tail == IF str # <<>> /\ str[1] = HYPHEN THEN Tail(str) ELSE str
  IN  IF tail # <<>> /\ tail[Len(tail)] = HYPHEN
        THEN SubSeq(tail, 1, Len(tail) - 1)
        ELSE tail

slugify(text) ==
  trimHyphens(replaceRuns(removeMarks(normalizeNFD(toLowerCase(text)))))

\* const id = slugify(raw.artist) + '-d' + day
idOf(artist, day) == slugify(artist) \o <<HYPHEN, "d">> \o toString(day)

\* parseEvents: one FestivalEvent per raw record, in file order
parseEvents(data) ==
  [i \in 1..Len(data) |->
     [id |-> idOf(data[i].artist, resolveDay(data[i])),
      artist |-> data[i].artist,
      day |-> resolveDay(data[i]),
      stage |-> data[i].stage] @@ parseEvent(data[i])]

STAGE_ORDER ==
  <<"Norte", "Sur", "Montaña", "Boomerang", "Paraguay", "La Casita del Blues",
    "La Plaza Electronic Stage", "Sorpresa">>

\* Array.prototype.indexOf, from 0; -1 when absent
indexOf(arr, x) ==
  IF x \in Range(arr)
    THEN (CHOOSE i \in 1..Len(arr) :
            arr[i] = x /\ \A j \in 1..(i - 1) : arr[j] # x) - 1
    ELSE -1

\* the comparator of the stage names without its fallback for -1
stageRank_NoFallback(name) == indexOf(STAGE_ORDER, name)

\* the comparator of the stage names is the difference of these
stageRank(name) ==
  LET ai == indexOf(STAGE_ORDER, name)
  IN  IF ai = -1 THEN 99 ELSE ai

\* Array.prototype.sort with a comparator key[a] - key[b]: the sort is stable
RECURSIVE sort(_, _)
sort(arr, key) ==
  IF arr = <<>>
    THEN <<>>
    ELSE LET front == sort(SubSeq(arr, 1, Len(arr) - 1), key)
             last == arr[Len(arr)]
         IN  SelectSeq(front, LAMBDA x : key[x] <= key[last])
               \o <<last>>
               \o SelectSeq(front, LAMBDA x : key[x] > key[last])

\* arr.map((e) => e.stage)
mapStage(arr) == [i \in 1..Len(arr) |-> arr[i].stage]

\* dayEvents.flatMap((e) => [e.startMinutes, e.endMinutes])
RECURSIVE flatMapMinutes(_)
flatMapMinutes(arr) ==
  IF arr = <<>>
    THEN <<>>
    ELSE <<arr[1].startMinutes, arr[1].endMinutes>> \o flatMapMinutes(Tail(arr))

\* A JavaScript number is an integer or one of the two infinities.
Finite(n) == [finite |-> TRUE, value |-> n]

Infinity == [finite |-> FALSE, negative |-> FALSE]

NegativeInfinity == [finite |-> FALSE, negative |-> TRUE]

\* Math.min(...arr): Infinity when arr is empty
MathMin(arr) ==
  IF arr = <<>>
    THEN Infinity
    ELSE Finite(CHOOSE m \in Range(arr) : \A x \in Range(arr) : m <= x)

\* Math.max(...arr): -Infinity when arr is empty
MathMax(arr) ==
  IF arr = <<>>
    THEN NegativeInfinity
    ELSE Finite(CHOOSE m \in Range(arr) : \A x \in Range(arr) : m >= x)

\* Math.floor(x / 60) * 60
floorToHour(x) ==
  IF x.finite THEN Finite((x.value \div 60) * 60) ELSE x

\* Math.ceil(x / 60) * 60
ceilToHour(x) ==
  IF x.finite THEN Finite((0 - ((0 - x.value) \div 60)) * 60) ELSE x

\* the end of the grid rounded down like its start
endMinuteOf_RoundsDown(allMinutes) == floorToHour(MathMax(allMinutes))

startMinuteOf(allMinutes) == floorToHour(MathMin(allMinutes))

endMinuteOf(allMinutes) == ceilToHour(MathMax(allMinutes))

\* the DaySchedule of one day
daySchedule(events, day) ==
  LET dayEvents == SelectSeq(events, LAMBDA e : e.day = day)
      discovered == newSet(mapStage(dayEvents))
      stageNames ==
        sort(discovered, [name \in Range(discovered) |-> stageRank(name)])
      stageEvents(name) == SelectSeq(dayEvents, LAMBDA e : e.stage = name)
      stages ==
        [i \in 1..Len(stageNames) |->
           [name |-> stageNames[i],
            events |->
              sort(stageEvents(stageNames[i]),
                   [e \in Range(dayEvents) |-> e.startMinutes])]]
      allMinutes == flatMapMinutes(dayEvents)
  IN  [day |-> day,
       stages |-> stages,
       startMinute |-> startMinuteOf(allMinutes),
       endMinute |-> endMinuteOf(allMinutes)]

\* const days = [1, 2]
days == <<1, 2>>

getDaySchedules(data) ==
  LET events == parseEvents(data)
  IN  [i \in 1..Len(days) |-> daySchedule(events, days[i])]

----------------------------------------------------------------------------
(* src/components/TimetableApp.tsx: what the render derives from the state *)

Days == {1, 2}

\* a lineup with events on both days
Lineup ==
  {[id |-> <<"a">>, day |-> 1],
   [id |-> <<"b">>, day |-> 2],
   [id |-> <<"a", "b">>, day |-> 1]}

\* a lineup whose day 2 has no events
LineupOfOneDay == {[id |-> <<"a">>, day |-> 1]}

\* the events of the schedules handed to TimetableApp
allEvents == schedules

\* an updater that adds id and never deletes it
toggleArtist_AddsOnly(prev, id) ==
  IF id \in Range(prev) THEN prev ELSE Append(prev, id)

\* the updater of toggleArtist: a copy of prev with id deleted or added
toggleArtist(prev, id) ==
  IF id \in Range(prev)
    THEN SelectSeq(prev, LAMBDA other : other # id)
    ELSE Append(prev, id)

\* switchToEdit: setReadOnly(false)
switchToEdit == FALSE

showMobileView == viewMode = "list" \/ (viewMode = "auto" /\ isMobile)

currentSchedule == {event \in allEvents : event.day = activeDay}

\* the events of filteredSchedule's stages, for a value of showOnlySelected
filteredScheduleWhen(onlySelected) ==
  IF ~onlySelected \/ Len(selectedIds) = 0
    THEN currentSchedule
    ELSE {event \in currentSchedule : event.id \in Range(selectedIds)}

filteredSchedule == filteredScheduleWhen(showOnlySelected)

\* the branch of the render that replaces the desktop grid
EmptyFilteredState == filteredSchedule = {} /\ showOnlySelected

\* what TimetableApp renders below the controls for a value of
\* showOnlySelected: the mobile timeline, the empty filtered state or the grid
\* of the stage columns, and the events on it
ScheduleView(onlySelected) ==
  [branch |->
     IF showMobileView
       THEN "mobile-timeline"
       ELSE IF filteredScheduleWhen(onlySelected) = {} /\ onlySelected
         THEN "empty-filtered-state"
         ELSE "grid",
   events |-> filteredScheduleWhen(onlySelected)]

\* the remove button of a selected tag: {!readOnly && <button .../>}
TagRemoveRendered == ~readOnly

\* the click handled without the test of readOnly
EventClick_IgnoresReadOnly(event) ==
  /\ selectedIds' = toggleArtist(selectedIds, event.id)
  /\ pendingEffect' = "sync"

\* onClick={() => !readOnly && onToggle(event.id)} of a block or a card
EventClick(event) ==
  IF readOnly
    THEN UNCHANGED <<selectedIds, pendingEffect>>
    ELSE /\ selectedIds' = toggleArtist(selectedIds, event.id)
         /\ pendingEffect' = "sync"

\* the ids of a stale snapshot: those the URL already holds
SyncIds_Stale == getSelectedIdsFromURL(location)

\* the ids the sync effect hands to updateURL: those of the commit it runs in
SyncIds == selectedIds

\* window.history.pushState: a new entry
pushState(length) == length + 1

\* window.history.replaceState: the current entry replaced
replaceState(length) == length

\* the share link without the view parameter
shareUrlOf_NoView(search, ids) ==
  paramsSet(paramsSet(search, "ids", join(ids)), "filter", "selected")

\* ActionPanel: the query of the URL the shareUrl effect builds from the
\* current one
shareUrlOf(search, ids) ==
  paramsSet(
    paramsSet(paramsSet(search, "ids", join(ids)), "view", "shared"),
    "filter", "selected")

\* ActionPanel: selectedEvents
selectedEvents == {event \in allEvents : event.id \in Range(selectedIds)}

\* ActionPanel renders the share and export menus unless it renders the hint
ActionMenusRendered == readOnly \/ Len(selectedIds) > 0

\* ActionPanel renders {toastInfo && <Toast .../>} in its last branch only:
\* not in the read-only branch, not in the hint branch
ToastRendered == toastInfo # "none" /\ ~readOnly /\ Len(selectedIds) > 0

----------------------------------------------------------------------------
(* src/components/TimeAxis.tsx, EventBlock.tsx and the formatters of data.ts *)

\* str.padStart(2, '0')
padStart2(str) == IF Len(str) < 2 THEN <<"0">> \o str ELSE str

\* `${h}:${m}` of the two padded numbers
HHMM(h, m) == padStart2(toString(h)) \o <<":">> \o padStart2(toString(m))

\* TimeAxis.tsx: the label of a grid minute
formatHour(normalizedMin) ==
  LET totalMin == normalizedMin + 13 * 60
      h == (totalMin \div 60) % 24
      m == totalMin % 60
  IN  HHMM(h, m)

\* data.ts: formatTime
formatTime(normalizedMinutes) ==
  LET totalMinutes == normalizedMinutes + GRID_START_MINUTES
      hours == (totalMinutes \div 60) % 24
      minutes == totalMinutes % 60
  IN  HHMM(hours, minutes)

\* data.ts: the local clock time shown on an event
getEventLocalTime(date) ==
  LET utcHours == getUTCHours(date)
      utcMinutes == getUTCMinutes(date)
      shifted == utcHours + UTC_OFFSET_HOURS
      localHours == IF shifted < 0 THEN shifted + 24 ELSE shifted
  IN  HHMM(localHours, utcMinutes)

\* TimeAxis: for (let m = startMinute; m <= endMinute; m += 60)
TimeAxis(startMinute, endMinute) ==
  [m \in {h \in startMinute..endMinute : (h - startMinute) % 60 = 0} |->
     formatHour(m)]

NotRendered == [rendered |-> FALSE]

\* the grid of a day that holds the one event: the labels of the time column
\* and the two times written on the event's block
renderGrid(event) ==
  LET allMinutes == <<event.startMinutes, event.endMinutes>>
  IN  [rendered |-> TRUE,
       labels |-> TimeAxis(startMinuteOf(allMinutes).value,
                           endMinuteOf(allMinutes).value),
       startTime |-> getEventLocalTime(event.startAt),
       endTime |-> getEventLocalTime(event.endAt)]

----------------------------------------------------------------------------
(* src/lib/data.ts: generateICS, and the events ActionPanel hands to it *)

\* date.toISOString() for a Date of January 1970
toISOString(date) ==
  <<"1970", "-", "01", "-">>
    \o padStart2(toString(1 + (date \div MinutesPerDay)))
    \o <<"T">> \o padStart2(toString(getUTCHours(date)))
    \o <<":">> \o padStart2(toString(getUTCMinutes(date)))
    \o <<":">> \o <<"00">> \o <<".000">> \o <<"Z">>

\* replace(/[-:]/g, '').replace(/\.\d{3}/, '')
formatDateForGCal(date) ==
  SelectSeq(toISOString(date), LAMBDA piece : piece \notin {"-", ":", ".000"})

CRLF == "\\r\\n"

\* the lines generateICS pushes for one event; a line is the sequence of the
\* pieces of its template literal
eventLines(event) ==
  <<<<"BEGIN:VEVENT">>,
    <<"DTSTART:">> \o formatDateForGCal(event.startAt),
    <<"DTEND:">> \o formatDateForGCal(event.endAt),
    <<"SUMMARY:">> \o event.artist \o <<" - Cosquín Rock® 2026">>,
    <<"LOCATION:Escenario ", event.stage,
      "\\, Cosquín Rock®\\, Córdoba\\, Argentina">>,
    <<"DESCRIPTION:">> \o event.artist
      \o <<" en el escenario ", event.stage, " del Cosquín Rock® 2026.">>,
    <<"UID:">> \o event.id \o <<"@cosquin-rock-lineup">>,
    <<"END:VEVENT">>>>

RECURSIVE icsLines(_)
icsLines(events) ==
  IF events = <<>>
    THEN <<>>
    ELSE eventLines(events[1]) \o icsLines(Tail(events))

\* lines.join('\r\n')
RECURSIVE joinLines(_)
joinLines(lines) ==
  IF lines = <<>>
    THEN <<>>
    ELSE IF Len(lines) = 1
      THEN lines[1]
      ELSE lines[1] \o <<CRLF>> \o joinLines(Tail(lines))

generateICS(events) ==
  joinLines(
    <<<<"BEGIN:VCALENDAR">>, <<"VERSION:2.0">>,
      <<"PRODID:-//Cosquin Rock Lineup//ES">>, <<"CALSCALE:GREGORIAN">>,
      <<"METHOD:PUBLISH">>>>
      \o icsLines(events)
      \o <<<<"END:VCALENDAR">>>>)

\* arr.flatMap((x) => x.events) of stage columns
RECURSIVE flatMapEvents(_)
flatMapEvents(stages) ==
  IF stages = <<>>
    THEN <<>>
    ELSE stages[1].events \o flatMapEvents(Tail(stages))

\* TimetableApp: schedules.flatMap((s) => s.stages.flatMap((st) => st.events))
RECURSIVE allEventsOf(_)
allEventsOf(scheds) ==
  IF scheds = <<>>
    THEN <<>>
    ELSE flatMapEvents(scheds[1].stages) \o allEventsOf(Tail(scheds))

\* ActionPanel: allEvents.filter((e) => selectedIds.has(e.id))
selectedEventsOf(scheds, ids) ==
  SelectSeq(allEventsOf(scheds), LAMBDA e : e.id \in ids)

----------------------------------------------------------------------------
(* Bounded inputs *)


IdsOptions ==
  {NoParams} \cup {paramsSet(NoParams, "ids", str) : str \in StringsUpTo(MaxIdsParamLen)}

ViewOptions ==
  {NoParams} \cup {paramsSet(NoParams, "view", v) : v \in {"shared", "Shared"}}

FilterOptions ==
  {NoParams} \cup {paramsSet(NoParams, "filter", v) : v \in {"selected", "all"}}

\* every query string of the bounded alphabet
Searches ==
  {i @@ v @@ f : i \in IdsOptions, v \in ViewOptions, f \in FilterOptions}

\* identifiers: non-empty strings without a comma
IdUniverse == {<<"a">>, <<"b">>, <<"a", "b">>}

\* Sets of identifiers in every insertion order
IdSets ==
  {ids \in UNION {[1..k -> IdUniverse] : k \in 0..MaxIds} :
     \A i, j \in 1..Len(ids) : i # j => ids[i] # ids[j]}

NotDecoded == [called |-> FALSE]

\* the root page without query and fragment
RootHref == [pathname |-> "/", searchParams |-> NoParams, hash |-> ""]

\* links with an ids parameter or none
HrefIds ==
  {NoParams, paramsSet(NoParams, "ids", <<"a">>),
   paramsSet(NoParams, "ids", <<"b", COMMA, "a">>)}

\* a parameter that updateURL does not know: from a campaign link, or none
OtherParams == {NoParams, paramsSet(NoParams, "utm_source", "x")}

Hrefs ==
  {[pathname |-> p, searchParams |-> i @@ v @@ f @@ o, hash |-> h] :
     p \in {"/", "/faq"}, i \in HrefIds, v \in ViewOptions, f \in FilterOptions,
     o \in OtherParams, h \in {"", "#agenda"}}

CodecIdle ==
  /\ href = RootHref
  /\ codecSearch = NoParams
  /\ codecArgs = [ids |-> <<>>, readOnly |-> FALSE, showOnlySelected |-> FALSE]
  /\ codecDecoded = NotDecoded
  /\ codecPc = "start"

Durations ==
  {1} \cup {d \in 1..(MinutesPerDay - 1) : d % DurationStep = 0}

RawEvents ==
  {[startAt |-> s, endAt |-> s + d] :
     s \in 0..(StartDays * MinutesPerDay - 1), d \in Durations}

\* the state of TimetableApp and ActionPanel at construction
AppConstructed ==
  /\ mounted = FALSE
  /\ hasHydrated = FALSE
  /\ selectedIds = <<>>
  /\ readOnly = FALSE
  /\ showOnlySelected = FALSE
  /\ activeDay = 1
  /\ viewMode = "auto"
  /\ pendingEffect = "mount"
  /\ processingState = "idle"
  /\ toastInfo = "none"
  /\ shareUrl = NoParams

AppIdle ==
  /\ schedules = Lineup
  /\ location = NoParams
  /\ historyLength = 1
  /\ isMobile = FALSE
  /\ AppConstructed

TimeIdle ==
  /\ rawEvent = [startAt |-> 0, endAt |-> 1]
  /\ festivalEvent = NoEvent
  /\ gridRender = NotRendered

\* the day fields of a raw record: day, the older dia, or neither
DayFields == {[day |-> 1], [dia |-> 2], <<>>}

\* two stages of STAGE_ORDER and two it does not list
StageNames == {"Sur", "Norte", "Domo", "Carpa"}

\* a set from 18:30 to 19:15 local and one from 23:30 to 00:45 local
TimeSlots ==
  {[artist |-> <<"a">>, startAt |-> 21 * 60 + 30, endAt |-> 22 * 60 + 15],
   [artist |-> <<"b">>, startAt |-> 2 * 60 + 30, endAt |-> 3 * 60 + 45]}

RawRecords ==
  {d @@ [stage |-> st] @@ t : d \in DayFields, st \in StageNames, t \in TimeSlots}

\* every data.json of at most MaxRecords of these records
RawDatas == UNION {[1..k -> RawRecords] : k \in 0..MaxRecords}

\* the artists of a lineup: two names with one slug, and a third
ArtistNames == {<<"a">>, <<"Á", "!">>, <<"b", " ", "&", " ", "a">>}

\* the day fields of DayFields, both fields at once, and a day after the last
LineupDayFields == DayFields \cup {[day |-> 2, dia |-> 1], [day |-> 3]}

LineupStages == {"Norte", "Domo"}

\* sets from 18:30 to 19:15 local
LineupRecords ==
  {d @@ [artist |-> name, stage |-> st,
         startAt |-> 21 * 60 + 30, endAt |-> 22 * 60 + 15] :
     d \in LineupDayFields, name \in ArtistNames, st \in LineupStages}

\* every data.json of at most MaxLineup of these records
LineupDatas == UNION {[1..k -> LineupRecords] : k \in 0..MaxLineup}

NotCalled == <<>>

NotExported == [exported |-> FALSE]

ScheduleIdle ==
  /\ rawData = <<>>
  /\ daySchedules = NotCalled
  /\ icsFile = NotExported

----------------------------------------------------------------------------
(* parseEvents on one raw record *)

InitTime ==
  /\ rawEvent \in RawEvents
  /\ festivalEvent = NoEvent
  /\ gridRender = NotRendered
  /\ CodecIdle
  /\ AppIdle
  /\ ScheduleIdle

ParseEvents ==
  /\ ~festivalEvent.built
  /\ festivalEvent' = parseEvent(rawEvent)
  /\ UNCHANGED <<rawEvent, gridRender>>
  /\ UNCHANGED codecVars
  /\ UNCHANGED appVars
  /\ UNCHANGED scheduleVars

\* TimetableApp renders the TimeAxis and the EventBlock of the event
RenderGrid ==
  /\ festivalEvent.built
  /\ ~gridRender.rendered
  /\ gridRender' = renderGrid(festivalEvent)
  /\ UNCHANGED <<rawEvent, festivalEvent>>
  /\ UNCHANGED codecVars
  /\ UNCHANGED appVars
  /\ UNCHANGED scheduleVars

NextTime == ParseEvents \/ RenderGrid

SpecTime == InitTime /\ [][NextTime]_vars

----------------------------------------------------------------------------
(* getDaySchedules on a data.json *)

InitSchedule ==
  /\ rawData \in RawDatas
  /\ daySchedules = NotCalled
  /\ icsFile = NotExported
  /\ TimeIdle
  /\ CodecIdle
  /\ AppIdle

GetDaySchedules ==
  /\ daySchedules = NotCalled
  /\ daySchedules' = getDaySchedules(rawData)
  /\ UNCHANGED <<rawData, icsFile>>
  /\ UNCHANGED timeVars
  /\ UNCHANGED codecVars
  /\ UNCHANGED appVars

NextSchedule == GetDaySchedules

SpecSchedule == InitSchedule /\ [][NextSchedule]_vars

----------------------------------------------------------------------------
(* getDaySchedules on a lineup of named artists, and the calendar export *)

InitLineup ==
  /\ rawData \in LineupDatas
  /\ daySchedules = NotCalled
  /\ icsFile = NotExported
  /\ TimeIdle
  /\ CodecIdle
  /\ AppIdle

\* handleExportICS with the ids of some of the events selected
ExportICS ==
  /\ daySchedules # NotCalled
  /\ ~icsFile.exported
  /\ \E ids \in SUBSET {e.id : e \in Range(allEventsOf(daySchedules))} :
       LET events == selectedEventsOf(daySchedules, ids)
       IN  icsFile' =
             [exported |-> TRUE, events |-> events, ics |-> generateICS(events)]
  /\ UNCHANGED <<rawData, daySchedules>>
  /\ UNCHANGED timeVars
  /\ UNCHANGED codecVars
  /\ UNCHANGED appVars

NextLineup == GetDaySchedules \/ ExportICS

SpecLineup == InitLineup /\ [][NextLineup]_vars

----------------------------------------------------------------------------
(* Calls of the codec *)

InitCodec ==
  /\ href = RootHref
  /\ codecSearch \in Searches
  /\ codecArgs \in [ids : IdSets, readOnly : BOOLEAN, showOnlySelected : BOOLEAN]
  /\ codecDecoded = NotDecoded
  /\ codecPc = "start"
  /\ TimeIdle
  /\ AppIdle
  /\ ScheduleIdle

\* the three readers on the query as it is: as loaded, or as updateURL left it
CodecDecode ==
  /\ codecPc \in {"start", "encoded"}
  /\ codecDecoded' = [called |-> TRUE] @@ decodeURL(codecSearch)
  /\ codecPc' = IF codecPc = "start" THEN "decoded" ELSE "roundtrip"
  /\ UNCHANGED <<codecSearch, codecArgs, href>>
  /\ UNCHANGED timeVars
  /\ UNCHANGED appVars
  /\ UNCHANGED scheduleVars

CodecUpdateURL ==
  /\ codecPc = "start"
  /\ codecSearch' = updateURL(codecSearch, codecArgs.ids, codecArgs.readOnly,
                              codecArgs.showOnlySelected)
  /\ codecPc' = "encoded"
  /\ UNCHANGED <<codecArgs, codecDecoded, href>>
  /\ UNCHANGED timeVars
  /\ UNCHANGED appVars
  /\ UNCHANGED scheduleVars

NextCodec == CodecDecode \/ CodecUpdateURL

SpecCodec == InitCodec /\ [][NextCodec]_vars

----------------------------------------------------------------------------
(* URL writes on a whole URL *)

InitHref ==
  /\ href \in Hrefs
  /\ codecSearch = NoParams
  /\ codecArgs = [ids |-> <<>>, readOnly |-> FALSE, showOnlySelected |-> FALSE]
  /\ codecDecoded = NotDecoded
  /\ codecPc = "start"
  /\ TimeIdle
  /\ AppIdle
  /\ ScheduleIdle

\* one call of updateURL, with any state of the page
UpdateURL ==
  /\ \E ids \in IdSets, wantShared \in BOOLEAN, wantFilter \in BOOLEAN :
       href' = updateHref(href, ids, wantShared, wantFilter)
  /\ UNCHANGED <<codecSearch, codecArgs, codecDecoded, codecPc>>
  /\ UNCHANGED timeVars
  /\ UNCHANGED appVars
  /\ UNCHANGED scheduleVars

NextHref == UpdateURL

SpecHref == InitHref /\ [][NextHref]_vars

----------------------------------------------------------------------------
(* src/components/TimetableApp.tsx and ActionPanel.tsx *)

\* The page is loaded at any URL of the bounded alphabet.
Init ==
  /\ schedules = Lineup
  /\ location \in Searches
  /\ historyLength = 1
  /\ isMobile \in BOOLEAN
  /\ AppConstructed
  /\ TimeIdle
  /\ CodecIdle
  /\ ScheduleIdle

\* The effects of the first commit, in order: setMounted(true); the hydration
\* effect and the sync effect both see mounted = false and return.
MountEffects ==
  /\ pendingEffect = "mount"
  /\ mounted' = TRUE
  /\ pendingEffect' = "hydrate"
  /\ UNCHANGED <<location, hasHydrated, storeVars, viewVars, panelVars>>
  /\ UNCHANGED <<pageVars, shareUrl, timeVars, codecVars, scheduleVars>>

\* a hydration effect that marks the state hydrated without reading the URL
HydrateEffect_KeepsDefaults ==
  /\ pendingEffect = "hydrate"
  /\ IF ~mounted
       THEN UNCHANGED <<hasHydrated, storeVars, shareUrl>>
       ELSE /\ shareUrl' = shareUrlOf(location, selectedIds)
            /\ hasHydrated' = TRUE
            /\ UNCHANGED storeVars
  /\ pendingEffect' = "sync"
  /\ UNCHANGED <<location, mounted, viewVars, processingState, toastInfo>>
  /\ UNCHANGED <<pageVars, timeVars, codecVars, scheduleVars>>

\* The effects of the commit in which mounted became true.  ActionPanel is
\* rendered for the first time and the effects of a child run before those of
\* its parent: the shareUrl effect sees the selectedIds of this commit, then
\* the hydration effect runs.  The new Set is a new object, so the
\* dependencies of the shareUrl effect and of the sync effect have changed.
HydrateEffect ==
  /\ pendingEffect = "hydrate"
  /\ IF ~mounted
       THEN UNCHANGED <<hasHydrated, storeVars, shareUrl>>
       ELSE /\ shareUrl' = shareUrlOf(location, selectedIds)
            /\ selectedIds' = getSelectedIdsFromURL(location)
            /\ readOnly' = isReadOnlyFromURL(location)
            /\ showOnlySelected' = isShowOnlySelectedFromURL(location)
            /\ hasHydrated' = TRUE
  /\ pendingEffect' = "sync"
  /\ UNCHANGED <<location, mounted, viewVars, processingState, toastInfo>>
  /\ UNCHANGED <<pageVars, timeVars, codecVars, scheduleVars>>

\* The effects of a commit in which selectedIds, readOnly or showOnlySelected
\* changed.  The shareUrl effect of ActionPanel runs first, on the URL as it
\* still is; it overwrites the three parameters, so a run for an unchanged
\* selectedIds leaves shareUrl as it is.  Then the sync effect reads the state
\* of the commit and replaces the current history entry.
SyncEffect ==
  /\ pendingEffect = "sync"
  /\ shareUrl' = shareUrlOf(location, selectedIds)
  /\ IF ~mounted \/ ~hasHydrated
       THEN UNCHANGED <<location, historyLength>>
       ELSE /\ location' =
                 updateURL(location, SyncIds, readOnly, showOnlySelected)
            /\ historyLength' = replaceState(historyLength)
  /\ pendingEffect' = "none"
  /\ UNCHANGED <<mounted, hasHydrated, storeVars, viewVars, processingState,
                 toastInfo>>
  /\ UNCHANGED <<schedules, timeVars, codecVars, scheduleVars>>

\* React runs the pending passive effects before it handles a click, and
\* nothing but "Cargando grilla..." is rendered before mounted.
Interactive == mounted /\ pendingEffect = "none"

\* onClick of an EventBlock of the desktop grid; the button is disabled in
\* read-only mode and its handler tests readOnly again.
ClickEventBlock(event) ==
  /\ Interactive
  /\ ~showMobileView
  /\ ~EmptyFilteredState
  /\ event \in filteredSchedule
  /\ EventClick(event)
  /\ UNCHANGED <<location, mounted, hasHydrated, readOnly, showOnlySelected,
                 viewVars, panelVars>>
  /\ UNCHANGED <<pageVars, shareUrl, timeVars, codecVars, scheduleVars>>

\* onClick of a MobileEventCard of the mobile timeline
ClickMobileEventCard(event) ==
  /\ Interactive
  /\ showMobileView
  /\ event \in filteredSchedule
  /\ EventClick(event)
  /\ UNCHANGED <<location, mounted, hasHydrated, readOnly, showOnlySelected,
                 viewVars, panelVars>>
  /\ UNCHANGED <<pageVars, shareUrl, timeVars, codecVars, scheduleVars>>

\* onClick of the remove button of a tag of the selected summary; the button
\* is rendered only when not read-only
ClickSelectedTagRemove(event) ==
  /\ Interactive
  /\ Len(selectedIds) > 0
  /\ event \in allEvents
  /\ event.id \in Range(selectedIds)
  /\ TagRemoveRendered
  /\ selectedIds' = toggleArtist(selectedIds, event.id)
  /\ pendingEffect' = "sync"
  /\ UNCHANGED <<location, mounted, hasHydrated, readOnly, showOnlySelected,
                 viewVars, panelVars>>
  /\ UNCHANGED <<pageVars, shareUrl, timeVars, codecVars, scheduleVars>>

\* a button that is always rendered and flips the mode
SwitchToEdit_TogglesMode ==
  /\ Interactive
  /\ readOnly' = ~readOnly
  /\ pendingEffect' = "sync"
  /\ UNCHANGED <<location, mounted, hasHydrated, selectedIds, showOnlySelected,
                 viewVars, panelVars>>
  /\ UNCHANGED <<pageVars, shareUrl, timeVars, codecVars, scheduleVars>>

\* "Crear mi agenda": rendered by ActionPanel's read-only branch only
SwitchToEdit ==
  /\ Interactive
  /\ readOnly
  /\ readOnly' = switchToEdit
  /\ pendingEffect' = "sync"
  /\ UNCHANGED <<location, mounted, hasHydrated, selectedIds, showOnlySelected,
                 viewVars, panelVars>>
  /\ UNCHANGED <<pageVars, shareUrl, timeVars, codecVars, scheduleVars>>

\* "Todos" / "Mi Agenda": rendered when not read-only with a selection.
\* all = TRUE is the click on "Todos".
ClickFilterOption(all) ==
  /\ Interactive
  /\ ~readOnly
  /\ Len(selectedIds) > 0
  /\ IF showOnlySelected = all
       THEN /\ showOnlySelected' = ~showOnlySelected
            /\ pendingEffect' = "sync"
       ELSE UNCHANGED <<showOnlySelected, pendingEffect>>
  /\ UNCHANGED <<location, mounted, hasHydrated, selectedIds, readOnly,
                 viewVars, panelVars>>
  /\ UNCHANGED <<pageVars, shareUrl, timeVars, codecVars, scheduleVars>>

\* a day tab, "Ir al Dia" of the empty filtered state
SetActiveDay(day) ==
  /\ Interactive
  /\ activeDay' = day
  /\ UNCHANGED <<location, mounted, hasHydrated, storeVars, viewMode, isMobile,
                 pendingEffect, panelVars>>
  /\ UNCHANGED <<pageVars, shareUrl, timeVars, codecVars, scheduleVars>>

\* the view toggle, rendered on mobile only
ToggleViewMode ==
  /\ Interactive
  /\ isMobile
  /\ viewMode' = IF showMobileView THEN "grid" ELSE "list"
  /\ UNCHANGED <<location, mounted, hasHydrated, storeVars, activeDay, isMobile,
                 pendingEffect, panelVars>>
  /\ UNCHANGED <<pageVars, shareUrl, timeVars, codecVars, scheduleVars>>

\* the media query of useIsMobile changes
MediaQueryChange ==
  /\ Interactive
  /\ isMobile' = ~isMobile
  /\ UNCHANGED <<location, mounted, hasHydrated, storeVars, activeDay, viewMode,
                 pendingEffect, panelVars>>
  /\ UNCHANGED <<pageVars, shareUrl, timeVars, codecVars, scheduleVars>>

\* "Copiar enlace": the clipboard write and its fallback succeed or fail
HandleCopy(copiedOk) ==
  /\ Interactive
  /\ ActionMenusRendered
  /\ toastInfo' = IF copiedOk THEN "success" ELSE "warning"
  /\ UNCHANGED <<location, mounted, hasHydrated, storeVars, viewVars,
                 pendingEffect, processingState>>
  /\ UNCHANGED <<pageVars, shareUrl, timeVars, codecVars, scheduleVars>>

\* "Descargar archivo ICS"
HandleExportICS ==
  /\ Interactive
  /\ ActionMenusRendered
  /\ toastInfo' = "success"
  /\ UNCHANGED <<location, mounted, hasHydrated, storeVars, viewVars,
                 pendingEffect, processingState>>
  /\ UNCHANGED <<pageVars, shareUrl, timeVars, codecVars, scheduleVars>>

\* "Descargar imagen": disabled unless idle
HandleExportImage(instagram) ==
  /\ Interactive
  /\ ActionMenusRendered
  /\ processingState = "idle"
  /\ IF selectedEvents = {}
       THEN UNCHANGED panelVars
       ELSE IF instagram
         THEN toastInfo' = "warning" /\ UNCHANGED processingState
         ELSE processingState' = "downloading" /\ UNCHANGED toastInfo
  /\ UNCHANGED <<location, mounted, hasHydrated, storeVars, viewVars,
                 pendingEffect>>
  /\ UNCHANGED <<pageVars, shareUrl, timeVars, codecVars, scheduleVars>>

\* a share button that is not disabled while an operation is pending
HandleNativeShare_NeverDisabled ==
  /\ Interactive
  /\ ActionMenusRendered
  /\ IF selectedEvents = {}
       THEN UNCHANGED panelVars
       ELSE processingState' = "sharing" /\ UNCHANGED toastInfo
  /\ UNCHANGED <<location, mounted, hasHydrated, storeVars, viewVars,
                 pendingEffect>>
  /\ UNCHANGED <<pageVars, shareUrl, timeVars, codecVars, scheduleVars>>

\* "Compartir con imagen": disabled unless idle
HandleNativeShare ==
  /\ Interactive
  /\ ActionMenusRendered
  /\ processingState = "idle"
  /\ IF selectedEvents = {}
       THEN UNCHANGED panelVars
       ELSE processingState' = "sharing" /\ UNCHANGED toastInfo
  /\ UNCHANGED <<location, mounted, hasHydrated, storeVars, viewVars,
                 pendingEffect>>
  /\ UNCHANGED <<pageVars, shareUrl, timeVars, codecVars, scheduleVars>>

\* a settling that puts the selection back to what the URL holds
ProcessingSettles_RestoresSelection(toast) ==
  /\ processingState # "idle"
  /\ processingState' = "idle"
  /\ toastInfo' = IF processingState = "sharing" /\ toast # "none"
                    THEN toast
                    ELSE toastInfo
  /\ selectedIds' = getSelectedIdsFromURL(location)
  /\ UNCHANGED <<location, mounted, hasHydrated, readOnly, showOnlySelected,
                 viewVars, pendingEffect>>
  /\ UNCHANGED <<pageVars, shareUrl, timeVars, codecVars, scheduleVars>>

\* the image export or the share settles: the finally block; the share may
\* have set a toast on its way
ProcessingSettles(toast) ==
  /\ processingState # "idle"
  /\ processingState' = "idle"
  /\ toastInfo' = IF processingState = "sharing" /\ toast # "none"
                    THEN toast
                    ELSE toastInfo
  /\ UNCHANGED <<location, mounted, hasHydrated, storeVars, viewVars,
                 pendingEffect>>
  /\ UNCHANGED <<pageVars, shareUrl, timeVars, codecVars, scheduleVars>>

\* the Toast closes (its button or its timer); it is rendered by the last
\* branch of ActionPanel only
ToastClose ==
  /\ Interactive
  /\ toastInfo # "none"
  /\ ~readOnly
  /\ Len(selectedIds) > 0
  /\ toastInfo' = "none"
  /\ UNCHANGED <<location, mounted, hasHydrated, storeVars, viewVars,
                 pendingEffect, processingState>>
  /\ UNCHANGED <<pageVars, shareUrl, timeVars, codecVars, scheduleVars>>

UserAction ==
  \/ \E event \in allEvents : ClickEventBlock(event)
  \/ \E event \in allEvents : ClickMobileEventCard(event)
  \/ \E event \in allEvents : ClickSelectedTagRemove(event)
  \/ SwitchToEdit
  \/ \E all \in BOOLEAN : ClickFilterOption(all)
  \/ \E day \in Days : SetActiveDay(day)
  \/ ToggleViewMode
  \/ \E copiedOk \in BOOLEAN : HandleCopy(copiedOk)
  \/ HandleExportICS
  \/ \E instagram \in BOOLEAN : HandleExportImage(instagram)
  \/ HandleNativeShare
  \/ ToastClose

Next ==
  \/ MountEffects
  \/ HydrateEffect
  \/ SyncEffect
  \/ UserAction
  \/ MediaQueryChange
  \/ \E toast \in {"none", "success", "warning"} : ProcessingSettles(toast)

Spec == Init /\ [][Next]_vars

\* The same page built from a data.json without events on day 2.
InitOneDay ==
  /\ schedules = LineupOfOneDay
  /\ location \in Searches
  /\ historyLength = 1
  /\ isMobile \in BOOLEAN
  /\ AppConstructed
  /\ TimeIdle
  /\ CodecIdle
  /\ ScheduleIdle

SpecOneDay == InitOneDay /\ [][Next]_vars

\* The page opened at its plain URL or at a link with a selection, with the
\* promises of html2canvas, navigator.share and the clipboard settling: the
\* handler then runs on to its finally block.
InitSettling ==
  /\ schedules = Lineup
  /\ location \in {s \in Searches :
                     paramsHas(s, "ids") =>
                       s["ids"] \in {<<"a">>, <<"b", COMMA, "a">>}}
  /\ historyLength = 1
  /\ isMobile \in BOOLEAN
  /\ AppConstructed
  /\ TimeIdle
  /\ CodecIdle
  /\ ScheduleIdle

Settles == \E toast \in {"none", "success", "warning"} : ProcessingSettles(toast)

SpecSettling == InitSettling /\ [][Next]_vars /\ WF_vars(Settles)

----------------------------------------------------------------------------
(* The time normalizer: C1, C2, C11 (SpecTime) *)

\* the local clock hour of an instant: (H - 3) mod 24
LocalHour(date) == (getUTCHours(date) + 24 - 3) % 24

\* the festival day of an instant: days run from 14:00 local to 13:59 local
FestivalDayOf(date) ==
  (date + MinutesPerDay - 3 * 60 - 14 * 60) \div MinutesPerDay

GridMinuteAsClaimed(date, g) ==
  LET L == LocalHour(date)
      M == getUTCMinutes(date)
  IN  /\ L >= 0
      /\ L \in 14..23 => g = L * 60 + M - 840 /\ g >= 0 /\ g < 600
      /\ L \in 0..13 => g = (L + 24) * 60 + M - 840 /\ g >= 600 /\ g < 1440

C2_CrossoverOrder ==
  festivalEvent.built =>
    /\ (/\ FestivalDayOf(rawEvent.startAt) = FestivalDayOf(rawEvent.endAt)
        /\ rawEvent.startAt < rawEvent.endAt)
       => festivalEvent.startMinutes < festivalEvent.endMinutes
    /\ (/\ LocalHour(rawEvent.startAt) \in 14..23
        /\ LocalHour(rawEvent.endAt) \in 0..13)
       => festivalEvent.startMinutes < festivalEvent.endMinutes
    /\ (/\ LocalHour(rawEvent.endAt) \in 14..23
        /\ LocalHour(rawEvent.startAt) \in 0..13)
       => festivalEvent.endMinutes < festivalEvent.startMinutes

\* 23:59 local and, a minute later, 00:00 local of the same festival day
C2_Witness ==
  /\ festivalEvent.built
  /\ FestivalDayOf(rawEvent.startAt) = FestivalDayOf(rawEvent.endAt)
  /\ LocalHour(rawEvent.startAt) = 23
  /\ getUTCMinutes(rawEvent.startAt) = 59
  /\ LocalHour(rawEvent.endAt) = 0
  /\ festivalEvent.startMinutes = 599
  /\ festivalEvent.endMinutes = 600

\* C11, as claimed: a raw record whose endAt is later than its startAt by
\* less than 24 hours is built with endMinutes > startMinutes and
\* duration = endMinutes - startMinutes > 0.
C11_PositiveDurationAsClaimed ==
  (/\ festivalEvent.built
   /\ rawEvent.startAt < rawEvent.endAt
   /\ rawEvent.endAt - rawEvent.startAt < MinutesPerDay)
  => /\ festivalEvent.endMinutes > festivalEvent.startMinutes
     /\ festivalEvent.duration =
          festivalEvent.endMinutes - festivalEvent.startMinutes
     /\ festivalEvent.duration > 0

\* C11, amended: duration is always endMinutes - startMinutes; when startAt
\* and endAt lie in the same festival day (14:00 to 13:59 local), endAt the
\* later, it is endAt - startAt > 0 and endMinutes > startMinutes; when the
\* record spans 14:00 local by less than 24 hours it is endAt - startAt - 1440,
\* negative, and endMinutes < startMinutes.
C11_PositiveDuration ==
  (/\ festivalEvent.built
   /\ rawEvent.startAt < rawEvent.endAt
   /\ rawEvent.endAt - rawEvent.startAt < MinutesPerDay)
  => /\ festivalEvent.duration =
          festivalEvent.endMinutes - festivalEvent.startMinutes
     /\ FestivalDayOf(rawEvent.startAt) = FestivalDayOf(rawEvent.endAt) =>
          /\ festivalEvent.endMinutes > festivalEvent.startMinutes
          /\ festivalEvent.duration = rawEvent.endAt - rawEvent.startAt
          /\ festivalEvent.duration > 0
     /\ FestivalDayOf(rawEvent.startAt) # FestivalDayOf(rawEvent.endAt) =>
          /\ festivalEvent.endMinutes < festivalEvent.startMinutes
          /\ festivalEvent.duration =
               rawEvent.endAt - rawEvent.startAt - MinutesPerDay

\* a set from 23:00 to 01:00 local: grid minutes 540 to 660
C11_Witness ==
  /\ festivalEvent.built
  /\ LocalHour(rawEvent.startAt) = 23
  /\ LocalHour(rawEvent.endAt) = 1
  /\ rawEvent.endAt - rawEvent.startAt = 120
  /\ festivalEvent.startMinutes = 540
  /\ festivalEvent.endMinutes = 660
  /\ festivalEvent.duration = 120

----------------------------------------------------------------------------
(* The schedule builder: C12, C13, C14 (SpecSchedule) *)

\* the events built from the raw records whose day resolves to day
EventsOfDay(day) ==
  {e \in Range(parseEvents(rawData)) : e.day = day}

\* C12: for every day with at least one event, startMinute and endMinute are
\* multiples of 60, startMinute is at most the startMinutes of every event of
\* the day and endMinute is at least the endMinutes of every event of the day.
C12_HourAlignedSpan ==
  daySchedules # NotCalled =>
    \A i \in 1..Len(daySchedules) :
      LET schedule == daySchedules[i]
      IN  EventsOfDay(schedule.day) # {} =>
            /\ schedule.startMinute.finite
            /\ schedule.endMinute.finite
            /\ schedule.startMinute.value % 60 = 0
            /\ schedule.endMinute.value % 60 = 0
            /\ \A e \in EventsOfDay(schedule.day) :
                 /\ schedule.startMinute.value <= e.startMinutes
                 /\ schedule.endMinute.value >= e.endMinutes

\* day 1 holds a set from 18:30 to 19:15 and one from 23:30 to 00:45: the grid
\* runs from 18:00 (240) to 01:00 (660)
C12_Witness ==
  /\ daySchedules # NotCalled
  /\ \E e \in EventsOfDay(1) : e.startMinutes = 270 /\ e.endMinutes = 315
  /\ \E e \in EventsOfDay(1) : e.startMinutes = 570 /\ e.endMinutes = 645
  /\ daySchedules[1].day = 1
  /\ daySchedules[1].startMinute = Finite(240)
  /\ daySchedules[1].endMinute = Finite(660)

\* C13: getDaySchedules returns exactly one DaySchedule for each of the days
\* 1 and 2; for a day without events stages is empty and startMinute and
\* endMinute are a finite range with startMinute <= endMinute.
C13_EmptyDayFallback ==
  daySchedules # NotCalled =>
    /\ Len(daySchedules) = 2
    /\ \A day \in {1, 2} :
         Cardinality({i \in 1..Len(daySchedules) : daySchedules[i].day = day}) = 1
    /\ \A i \in 1..Len(daySchedules) :
         LET schedule == daySchedules[i]
         IN  EventsOfDay(schedule.day) = {} =>
               /\ schedule.stages = <<>>
               /\ schedule.startMinute.finite
               /\ schedule.endMinute.finite
               /\ schedule.startMinute.value <= schedule.endMinute.value

Listed(name) == name \in Range(STAGE_ORDER)

\* where x comes first in arr
FirstPosition(arr, x) ==
  CHOOSE i \in 1..Len(arr) : arr[i] = x /\ \A j \in 1..(i - 1) : arr[j] # x

\* the stage names of the records of a day, in file order
StagesInFileOrder(day) ==
  LET events == parseEvents(rawData)
      picked == SelectSeq(events, LAMBDA e : e.day = day)
  IN  [i \in 1..Len(picked) |-> picked[i].stage]

\* C14: the stage columns of a day hold each stage name of the day's events
\* exactly once; the stages of STAGE_ORDER come in the order of that list,
\* every other stage comes after them, and the other stages keep the order in
\* which the day's records first name them.
C14_StageOrder ==
  daySchedules # NotCalled =>
    \A i \in 1..Len(daySchedules) :
      LET columns == daySchedules[i].stages
          inFile == StagesInFileOrder(daySchedules[i].day)
      IN  /\ {columns[k].name : k \in 1..Len(columns)} = Range(inFile)
          /\ \A j, k \in 1..Len(columns) :
               j < k =>
                 LET a == columns[j].name
                     b == columns[k].name
                 IN  /\ a # b
                     /\ (Listed(a) /\ Listed(b)) =>
                          FirstPosition(STAGE_ORDER, a) < FirstPosition(STAGE_ORDER, b)
                     /\ ~(~Listed(a) /\ Listed(b))
                     /\ (~Listed(a) /\ ~Listed(b)) =>
                          FirstPosition(inFile, a) < FirstPosition(inFile, b)

\* the records of day 1 name Domo, Carpa and Norte in this order: the columns
\* are Norte, Domo, Carpa
C14_Witness ==
  /\ daySchedules # NotCalled
  /\ StagesInFileOrder(1) = <<"Domo", "Carpa", "Norte">>
  /\ Len(daySchedules[1].stages) = 3
  /\ daySchedules[1].stages[1].name = "Norte"
  /\ daySchedules[1].stages[2].name = "Domo"
  /\ daySchedules[1].stages[3].name = "Carpa"

----------------------------------------------------------------------------
(* The URL codec: C4, C8, C9 (SpecCodec) *)

SameState(decoded, ids, wantShared, wantFilter) ==
  /\ Range(decoded.selectedIds) = Range(ids)
  /\ decoded.readOnly = wantShared
  /\ decoded.showOnlySelected = wantFilter

\* C4: for every set of ids and the four combinations of the flags, with
\* showOnlySelected false when the set is empty, decoding the URL that
\* updateURL wrote gives the state back.
C4_RoundTrip ==
  (/\ codecPc = "roundtrip"
   /\ (codecArgs.ids = <<>> => ~codecArgs.showOnlySelected))
  => /\ codecDecoded.called
     /\ SameState(codecDecoded, codecArgs.ids, codecArgs.readOnly,
                  codecArgs.showOnlySelected)

\* two ids with both flags set have gone through updateURL and the readers
C4_Witness ==
  /\ codecPc = "roundtrip"
  /\ codecArgs = [ids |-> << <<"a", "b">>, <<"a">> >>, readOnly |-> TRUE,
                  showOnlySelected |-> TRUE]
  /\ codecDecoded.selectedIds = << <<"a", "b">>, <<"a">> >>
  /\ codecDecoded.readOnly
  /\ codecDecoded.showOnlySelected

\* the ids with a comma between each two of them
RECURSIVE CommaJoined(_)
CommaJoined(ids) ==
  IF Len(ids) = 0
    THEN <<>>
    ELSE IF Len(ids) = 1
      THEN ids[1]
      ELSE CommaJoined(SubSeq(ids, 1, Len(ids) - 1)) \o <<",">> \o ids[Len(ids)]

\* C8: after updateURL(ids, readOnly, showOnlySelected) the ids parameter is
\* present iff ids is non-empty, and is then the comma-joined ids, never the
\* empty string; view=shared is present iff readOnly; filter=selected is
\* present iff showOnlySelected and ids is non-empty.
C8_EncodingRules ==
  codecPc \in {"encoded", "roundtrip"} =>
    /\ paramsHas(codecSearch, "ids") <=> codecArgs.ids # <<>>
    /\ paramsHas(codecSearch, "ids") =>
         /\ codecSearch["ids"] = CommaJoined(codecArgs.ids)
         /\ codecSearch["ids"] # <<>>
    /\ paramsHas(codecSearch, "view") <=> codecArgs.readOnly
    /\ paramsHas(codecSearch, "view") => codecSearch["view"] = "shared"
    /\ paramsHas(codecSearch, "filter") <=>
         (codecArgs.showOnlySelected /\ codecArgs.ids # <<>>)
    /\ paramsHas(codecSearch, "filter") => codecSearch["filter"] = "selected"

\* updateURL was called with no ids and showOnlySelected: no ids, no filter
C8_Witness ==
  /\ codecPc = "encoded"
  /\ codecArgs.ids = <<>>
  /\ codecArgs.showOnlySelected
  /\ codecArgs.readOnly
  /\ DOMAIN codecSearch = {"view"}

\* the non-empty pieces of a string between its commas, its start and its end
TokensOf(str) ==
  {SubSeq(str, p[1], p[2]) :
     p \in {q \in (1..Len(str)) \X (1..Len(str)) :
              /\ q[1] <= q[2]
              /\ \A k \in q[1]..q[2] : str[k] # ","
              /\ (q[1] = 1 \/ str[q[1] - 1] = ",")
              /\ (q[2] = Len(str) \/ str[q[2] + 1] = ",")}}

\* C9: decoding any query gives a state: selectedIds is the set of non-empty
\* comma-separated tokens of ids (empty when ids is missing, empty or commas
\* only), readOnly iff view is exactly "shared", showOnlySelected iff filter
\* is exactly "selected"; anything else decodes to the default.
C9_DecodeTotal ==
  codecPc = "decoded" =>
    /\ codecDecoded.called
    /\ codecDecoded.readOnly \in BOOLEAN
    /\ codecDecoded.showOnlySelected \in BOOLEAN
    /\ Range(codecDecoded.selectedIds) =
         IF paramsHas(codecSearch, "ids")
           THEN TokensOf(codecSearch["ids"])
           ELSE {}
    /\ \A t \in Range(codecDecoded.selectedIds) : t # <<>>
    /\ codecDecoded.readOnly <=>
         (paramsHas(codecSearch, "view") /\ codecSearch["view"] = "shared")
    /\ codecDecoded.showOnlySelected <=>
         (paramsHas(codecSearch, "filter") /\ codecSearch["filter"] = "selected")
    /\ (/\ ~paramsHas(codecSearch, "ids") \/ TokensOf(codecSearch["ids"]) = {}
        /\ ~paramsHas(codecSearch, "view") \/ codecSearch["view"] # "shared"
        /\ ~paramsHas(codecSearch, "filter") \/ codecSearch["filter"] # "selected")
       => /\ codecDecoded.selectedIds = <<>>
          /\ ~codecDecoded.readOnly
          /\ ~codecDecoded.showOnlySelected

\* a garbled query, ids=,a, with view=Shared and filter=all, has been decoded
C9_Witness ==
  /\ codecPc = "decoded"
  /\ codecSearch = [ids |-> <<",", "a", ",">>, view |-> "Shared", filter |-> "all"]
  /\ codecDecoded.selectedIds = << <<"a">> >>
  /\ ~codecDecoded.readOnly
  /\ ~codecDecoded.showOnlySelected

----------------------------------------------------------------------------
(* The selection state and its URL: C3, C5, C6, C7, C10 (Spec) *)

\* the sync effect has run on the hydrated state and nothing is pending
Synced == hasHydrated /\ pendingEffect = "none"

\* C3, as claimed: in every reachable state, decoding the URL that the sync
\* wrote gives back the same ids, readOnly and showOnlySelected.
C3_RoundTripAsClaimed ==
  Synced =>
    SameState(decodeURL(location), selectedIds, readOnly, showOnlySelected)

\* C3, amended: decoding the URL that the sync wrote gives back the same ids
\* and readOnly, and showOnlySelected whenever the selection is not empty;
\* with an empty selection the decoded showOnlySelected is false.
C3_RoundTrip ==
  Synced =>
    SameState(decodeURL(location), selectedIds, readOnly,
              showOnlySelected /\ Len(selectedIds) > 0)

\* a selection built by toggles, filtered, written to the URL
C3_Witness ==
  /\ Synced
  /\ selectedIds = << <<"b">>, <<"a", "b">> >>
  /\ showOnlySelected
  /\ ~readOnly
  /\ location = [ids |-> <<"b", ",", "a", "b">>, filter |-> "selected"]

\* C5: while readOnly is true no step (a click on an event block, on a
\* mobile event card or on an agenda tag, or any other) changes selectedIds.
C5_ReadOnlyNoToggle ==
  [][readOnly => selectedIds' = selectedIds]_vars

\* read-only with a selection, the desktop grid showing a block to click on
C5_Witness ==
  /\ Interactive
  /\ readOnly
  /\ Len(selectedIds) > 0
  /\ ~showMobileView
  /\ ~EmptyFilteredState
  /\ \E event \in filteredSchedule : event.id \in Range(selectedIds)
  /\ \E event \in filteredSchedule : event.id \notin Range(selectedIds)

\* C6: after hydration no step turns readOnly from false to true, and the
\* only step that changes readOnly is switch-to-edit, from true to false.
C6_ReadOnlyOnlyFromURL ==
  [][hasHydrated =>
       /\ readOnly' => readOnly
       /\ readOnly' # readOnly => SwitchToEdit]_vars

\* just after switch-to-edit on a shared agenda: the URL still says shared
C6_Witness ==
  /\ hasHydrated
  /\ pendingEffect = "sync"
  /\ ~readOnly
  /\ Len(selectedIds) > 0
  /\ paramsHas(location, "view")
  /\ location["view"] = "shared"

\* C7: switch-to-edit yields readOnly = false and leaves selectedIds and
\* showOnlySelected as they are; the URL sync that follows removes the view
\* parameter and leaves an ids parameter that decodes to the same selection.
C7_SwitchToEditFrame ==
  [][/\ SwitchToEdit =>
          /\ ~readOnly'
          /\ selectedIds' = selectedIds
          /\ showOnlySelected' = showOnlySelected
     /\ (SyncEffect /\ hasHydrated /\ ~readOnly) =>
          /\ ~paramsHas(location', "view")
          /\ getSelectedIdsFromURL(location') = selectedIds
          /\ selectedIds' = selectedIds]_vars

\* just after switch-to-edit from ?view=shared with no ids
C7_Witness ==
  /\ hasHydrated
  /\ pendingEffect = "sync"
  /\ ~readOnly
  /\ selectedIds = <<>>
  /\ DOMAIN location = {"view"}
  /\ location["view"] = "shared"

\* C10: every change of the selection state leaves the sync effect pending,
\* and the sync effect writes a URL that decodes to the selectedIds and the
\* readOnly of the state as it then is.
C10_SyncReadsCurrentState ==
  [][/\ (hasHydrated /\ storeVars' # storeVars) => pendingEffect' = "sync"
     /\ (SyncEffect /\ hasHydrated) =>
          /\ Range(getSelectedIdsFromURL(location')) = Range(selectedIds')
          /\ isReadOnlyFromURL(location') = readOnly'
          /\ pendingEffect' = "none"]_vars

\* a selection that only toggles can build is in the URL
C10_Witness ==
  /\ Synced
  /\ selectedIds = << <<"a", "b">>, <<"b">>, <<"a">> >>
  /\ paramsHas(location, "ids")
  /\ location["ids"] = <<"a", "b", ",", "b", ",", "a">>

----------------------------------------------------------------------------
(* The share link, the encoding, the toggles and the history: C16 to C19 (Spec) *)

\* C16: the share link built while the selection is S, when opened, hydrates
\* (the three readers applied to its query) to selectedIds = S with
\* readOnly = true.
C16_ShareLinkOpensReadOnly ==
  (Interactive /\ ActionMenusRendered) =>
    LET opened == decodeURL(shareUrl)
    IN  /\ Range(opened.selectedIds) = Range(selectedIds)
        /\ opened.readOnly

\* an agenda of two artists being edited: the page URL has no view parameter,
\* the share link has
C16_Witness ==
  /\ Interactive
  /\ ~readOnly
  /\ selectedIds = << <<"a">>, <<"a", "b">> >>
  /\ ~paramsHas(location, "view")
  /\ shareUrl = [ids |-> <<"a", ",", "a", "b">>, view |-> "shared",
                 filter |-> "selected"]

\* the same ids in every order of selection
Orderings(ids) ==
  {other \in [1..Len(ids) -> Range(ids)] : Range(other) = Range(ids)}

\* C17, as claimed: writing the URL again from the same state gives the same
\* query, and the state with the same ids selected in any other order and the
\* same flags gives the same ids, view and filter parameters.
C17_CanonicalAsClaimed ==
  Synced =>
    /\ updateURL(location, selectedIds, readOnly, showOnlySelected) = location
    /\ \A other \in Orderings(selectedIds) :
         updateURL(location, other, readOnly, showOnlySelected) = location

\* C17, amended: writing the URL again from the same state gives the same
\* query; the ids parameter lists the ids in the order of their selection, so
\* the same ids selected in another order give the same view and filter
\* parameters and an ids parameter that decodes to the same set.
C17_Idempotent ==
  Synced =>
    /\ updateURL(location, selectedIds, readOnly, showOnlySelected) = location
    /\ paramsHas(location, "ids") => location["ids"] = CommaJoined(selectedIds)
    /\ \A other \in Orderings(selectedIds) :
         LET written == updateURL(location, other, readOnly, showOnlySelected)
         IN  /\ DOMAIN written = DOMAIN location
             /\ \A name \in DOMAIN written \ {"ids"} :
                  written[name] = location[name]
             /\ Range(getSelectedIdsFromURL(written)) = Range(selectedIds)

\* b was selected before a: the URL lists b first
C17_Witness ==
  /\ Synced
  /\ selectedIds = << <<"b">>, <<"a">> >>
  /\ readOnly
  /\ showOnlySelected
  /\ location = [ids |-> <<"b", ",", "a">>, view |-> "shared",
                 filter |-> "selected"]

\* a click that toggles the identifier of event
ToggleOf(event) ==
  \/ ClickEventBlock(event)
  \/ ClickMobileEventCard(event)
  \/ ClickSelectedTagRemove(event)

\* C18: in edit mode a toggle flips the membership of its identifier and of
\* no other, leaves readOnly and showOnlySelected as they are, and a second
\* toggle of the same identifier gives the original membership back.
C18_ToggleTwice ==
  [][\A event \in allEvents :
       (ToggleOf(event) /\ ~readOnly) =>
          /\ (event.id \in Range(selectedIds')) # (event.id \in Range(selectedIds))
          /\ Range(selectedIds') \ {event.id} = Range(selectedIds) \ {event.id}
          /\ readOnly' = readOnly
          /\ showOnlySelected' = showOnlySelected
          /\ Range(toggleArtist(selectedIds', event.id)) = Range(selectedIds)]_vars

\* b has just been toggled off an agenda of a and b
C18_Witness ==
  /\ hasHydrated
  /\ pendingEffect = "sync"
  /\ ~readOnly
  /\ selectedIds = << <<"a">> >>
  /\ paramsHas(location, "ids")
  /\ location["ids"] = <<"a", ",", "b">>

\* C19: no step changes the number of history entries: the URL sync replaces
\* the current entry.
C19_NoHistoryEntry ==
  [][historyLength' = historyLength]_vars

\* three toggles synced to the URL, the history as long as at page load
C19_Witness ==
  /\ Synced
  /\ ~readOnly
  /\ selectedIds = << <<"b">>, <<"a">>, <<"a", "b">> >>
  /\ paramsHas(location, "ids")
  /\ location["ids"] = <<"b", ",", "a", ",", "a", "b">>
  /\ historyLength = 1

\* C20: with no event selected (selectedIds empty or holding only ids of no
\* event), the ICS download, the image download and the share with image set
\* no toast and enter no processing state; the ICS handler downloads its file
\* and sets its toast in one call.
C20_EmptyExportNoOp ==
  [][(/\ selectedEvents = {}
      /\ \/ HandleExportICS
         \/ \E instagram \in BOOLEAN : HandleExportImage(instagram)
         \/ HandleNativeShare)
     => UNCHANGED <<processingState, toastInfo>>]_vars

----------------------------------------------------------------------------
(* The filter: C15 (SpecOneDay) *)

\* C15: when selectedIds is empty, what is rendered with showOnlySelected
\* true is what is rendered with showOnlySelected false, on every day and in
\* every view mode, and the empty filtered state is never shown.
C15_FilterNoEffectWhenEmpty ==
  (mounted /\ Len(selectedIds) = 0) =>
     /\ ScheduleView(showOnlySelected) = ScheduleView(FALSE)
     /\ ScheduleView(showOnlySelected).branch # "empty-filtered-state"

----------------------------------------------------------------------------
(* The notifications: C21 (Spec) *)

\* C21: when the clipboard write and the manual copy both fail, a toast is
\* visible after the copy action, in edit mode and in read-only mode; and every
\* toast a copy action sets is displayed.
C21_CopyFailureNotified ==
  [][(\E copiedOk \in BOOLEAN : HandleCopy(copiedOk)) => ToastRendered']_vars

----------------------------------------------------------------------------
(* The hour labels: C22 (SpecTime) *)

\* the local clock time HH:MM of a grid minute: minute m + 840 of the day
ClockOfGridMinute(m) ==
  LET clock == (m + 840) % MinutesPerDay
  IN  HHMM(clock \div 60, clock % 60)

\* C22: the label drawn at grid minute m is the local clock time of minute
\* m + 840 modulo 24 hours: 14:00 at grid minute 0, 00:00 at grid minute 600,
\* and at the startMinutes of an event that starts on the hour the start time
\* written on the event.
C22_HourLabelInverse ==
  gridRender.rendered =>
    /\ \A m \in DOMAIN gridRender.labels :
         gridRender.labels[m] = ClockOfGridMinute(m)
    /\ 0 \in DOMAIN gridRender.labels =>
         gridRender.labels[0] = <<"1", "4", ":", "0", "0">>
    /\ 600 \in DOMAIN gridRender.labels =>
         gridRender.labels[600] = <<"0", "0", ":", "0", "0">>
    /\ festivalEvent.startMinutes \in DOMAIN gridRender.labels =>
         gridRender.labels[festivalEvent.startMinutes] = gridRender.startTime

----------------------------------------------------------------------------
(* The calendar export and the event ids: C23, C24, C25 (SpecLineup) *)

\* the lines of a document: the pieces between the line breaks
RECURSIVE LinesOf(_)
LinesOf(doc) ==
  IF \A i \in 1..Len(doc) : doc[i] # CRLF
    THEN <<doc>>
    ELSE LET i == CHOOSE k \in 1..Len(doc) :
                    doc[k] = CRLF /\ \A j \in 1..(k - 1) : doc[j] # CRLF
         IN  <<SubSeq(doc, 1, i - 1)>> \o LinesOf(SubSeq(doc, i + 1, Len(doc)))

\* the lines that open or close a component, in document order
Delimiters(lines) ==
  SelectSeq(lines, LAMBDA l : l \in {<<"BEGIN:VEVENT">>, <<"END:VEVENT">>,
                                      <<"BEGIN:VCALENDAR">>, <<"END:VCALENDAR">>})

\* the UID lines, in document order
UidLines(lines) == SelectSeq(lines, LAMBDA l : l # <<>> /\ l[1] = "UID:")

\* the document has one VCALENDAR block that holds the VEVENT blocks one
\* after the other, none inside another
WellNested(lines, n) ==
  LET marks == Delimiters(lines)
  IN  /\ Len(marks) = 2 * n + 2
      /\ lines[1] = <<"BEGIN:VCALENDAR">>
      /\ lines[Len(lines)] = <<"END:VCALENDAR">>
      /\ marks[1] = <<"BEGIN:VCALENDAR">>
      /\ marks[Len(marks)] = <<"END:VCALENDAR">>
      /\ \A k \in 1..n :
           /\ marks[2 * k] = <<"BEGIN:VEVENT">>
           /\ marks[2 * k + 1] = <<"END:VEVENT">>

\* the structure of the document without the distinctness of the UID values
ICSBlocksInOrder ==
  icsFile.exported =>
    LET lines == LinesOf(icsFile.ics)
        n == Len(icsFile.events)
        uids == UidLines(lines)
    IN  /\ WellNested(lines, n)
        /\ Len(uids) = n
        /\ \A k \in 1..n :
             uids[k] = <<"UID:">> \o icsFile.events[k].id
                         \o <<"@cosquin-rock-lineup">>

\* C23: for a list of N selected events generateICS returns a document with
\* exactly one enclosing BEGIN:VCALENDAR ... END:VCALENDAR block that holds
\* exactly N BEGIN:VEVENT/END:VEVENT pairs, one per event in input order and
\* never nested, and the N UID values are pairwise distinct.
C23_ICSDocument ==
  /\ ICSBlocksInOrder
  /\ icsFile.exported =>
       LET uids == UidLines(LinesOf(icsFile.ics))
       IN  \A j, k \in 1..Len(uids) : j # k => uids[j] # uids[k]

\* C24: event ids are a function of (artist, day) and are unique within a day:
\* no two events of the same day have the same id, so toggling one event
\* never changes the selected status of any other event.
C24_IdsUniqueWithinDay ==
  daySchedules # NotCalled =>
    LET all == allEventsOf(daySchedules)
    IN  /\ \A j, k \in 1..Len(all) :
             (all[j].artist = all[k].artist /\ all[j].day = all[k].day)
               => all[j].id = all[k].id
        /\ \A j, k \in 1..Len(all) :
             (j # k /\ all[j].day = all[k].day) => all[j].id # all[k].id
        /\ \A j, k \in 1..Len(all) :
             j # k =>
               \A prev \in {<<>>, <<all[k].id>>} :
                 (all[k].id \in Range(toggleArtist(prev, all[j].id)))
                   = (all[k].id \in Range(prev))

\* the day the claim resolves for a raw record
ResolvedDay(raw) ==
  IF "day" \in DOMAIN raw
    THEN raw.day
    ELSE IF "dia" \in DOMAIN raw THEN raw.dia ELSE 1

\* where the schedules hold an event built from the raw record:
\* <<schedule, stage column, position>>
PlacesOf(raw) ==
  {p \in UNION {UNION {{<<i, j, k>> :
                           k \in 1..Len(daySchedules[i].stages[j].events)} :
                         j \in 1..Len(daySchedules[i].stages)} :
                  i \in 1..Len(daySchedules)} :
     LET e == daySchedules[p[1]].stages[p[2]].events[p[3]]
     IN  /\ e.artist = raw.artist
         /\ e.stage = raw.stage
         /\ e.startAt = raw.startAt
         /\ e.endAt = raw.endAt
         /\ e.day = ResolvedDay(raw)}

\* the records of the file that build the same event as raw
RecordsLike(raw) ==
  {i \in 1..Len(rawData) :
     /\ rawData[i].artist = raw.artist
     /\ rawData[i].stage = raw.stage
     /\ rawData[i].startAt = raw.startAt
     /\ rawData[i].endAt = raw.endAt
     /\ ResolvedDay(rawData[i]) = ResolvedDay(raw)}

----------------------------------------------------------------------------
(* The page load: C27 (Spec) *)

\* what an opened link says: its ids, whether it is shared, whether it filters
IdsInLink(search) ==
  IF paramsHas(search, "ids") THEN TokensOf(search["ids"]) ELSE {}

SharedInLink(search) == paramsHas(search, "view") /\ search["view"] = "shared"

FilterInLink(search) ==
  paramsHas(search, "filter") /\ search["filter"] = "selected"

\* the step of the hydration effect that reads the URL
Hydrates == ~hasHydrated /\ hasHydrated'

\* what the load does apart from the filter parameter: the URL is not written
\* before hydration, hydration decodes the URL of the load, the state does
\* not change between hydration and the write, the write carries the ids and
\* the view of the state, and a link without parameters stays without them
LoadDecodesThenWrites ==
  /\ ~hasHydrated => location' = location
  /\ Hydrates =>
       /\ Range(selectedIds') = IdsInLink(location)
       /\ readOnly' = SharedInLink(location)
       /\ showOnlySelected' = FilterInLink(location)
       /\ pendingEffect' = "sync"
  /\ pendingEffect = "sync" => storeVars' = storeVars
  /\ (SyncEffect /\ hasHydrated) =>
       /\ IdsInLink(location') = Range(selectedIds)
       /\ SharedInLink(location') = readOnly
       /\ paramsHas(location', "view") => SharedInLink(location')
       /\ paramsHas(location', "filter") => FilterInLink(location')
  /\ (Hydrates /\ DOMAIN location \cap {"ids", "view", "filter"} = {}) =>
       /\ selectedIds' = <<>> /\ ~readOnly' /\ ~showOnlySelected'
       /\ updateURL(location', selectedIds', readOnly', showOnlySelected')
            = location

\* C27, as claimed: the state after hydration is the decoding of the URL of
\* the load, the URL is not written before hydration, and the first write
\* encodes the hydrated state, so that the ids, the view and the filter of
\* the opened link are all still in the URL; without parameters the state is
\* (empty, false, false) and the URL stays without them.
C27_LoadKeepsLinkAsClaimed ==
  [][/\ LoadDecodesThenWrites
     /\ (SyncEffect /\ hasHydrated) =>
          FilterInLink(location') = showOnlySelected]_vars

\* C27, amended: as above for the ids and the view; the filter of the link
\* is in the state after hydration, and the write that follows keeps it in
\* the URL when the link has ids and removes it when the link has none.
C27_LoadKeepsLink ==
  [][/\ LoadDecodesThenWrites
     /\ (SyncEffect /\ hasHydrated) =>
          FilterInLink(location') = (showOnlySelected /\ Len(selectedIds) > 0)]_vars

\* a shared, filtered link with two ids just after its hydration: the URL is
\* still the one of the load and the write is pending
C27_Witness ==
  /\ hasHydrated
  /\ pendingEffect = "sync"
  /\ historyLength = 1
  /\ location = [ids |-> <<"b", ",", "a">>, view |-> "shared", filter |-> "selected"]
  /\ selectedIds = << <<"b">>, <<"a">> >>
  /\ readOnly
  /\ showOnlySelected

----------------------------------------------------------------------------
(* The frame of a URL write: C28 (SpecHref) *)

OwnParams == {"ids", "view", "filter"}

\* the query parameters that are not updateURL's
ForeignParams(url) ==
  [k \in DOMAIN url.searchParams \ OwnParams |-> url.searchParams[k]]

\* C28: a URL write changes only the ids, view and filter query parameters:
\* the path, the fragment and every other query parameter are the same
\* before and after it.
C28_WriteFrame ==
  [][/\ href'.pathname = href.pathname
     /\ href'.hash = href.hash
     /\ ForeignParams(href') = ForeignParams(href)]_vars

\* a campaign link to a page and a fragment after a write of two ids in the
\* order b, ab, shared and filtered
C28_Witness ==
  /\ href.pathname = "/faq"
  /\ href.hash = "#agenda"
  /\ href.searchParams =
       [ids |-> <<"b", ",", "a", "b">>, view |-> "shared", filter |-> "selected",
        utm_source |-> "x"]

----------------------------------------------------------------------------
(* A pending export or share and the selection: C26 (Spec) *)

Pending == processingState # "idle"

\* the controls that the page shows are enabled while an operation is pending
EnabledWhilePending ==
  (Pending /\ Interactive) =>
    /\ readOnly => ENABLED SwitchToEdit
    /\ (~readOnly /\ Len(selectedIds) > 0) =>
         /\ ENABLED ClickFilterOption(showOnlySelected)
         /\ \A event \in selectedEvents : ENABLED ClickSelectedTagRemove(event)
    /\ \A event \in filteredSchedule :
         IF showMobileView
           THEN ENABLED ClickMobileEventCard(event)
           ELSE ~EmptyFilteredState => ENABLED ClickEventBlock(event)

\* C26: while an image export or a native share is pending, toggle,
\* switch-to-edit and filter-toggle stay enabled and take effect in the
\* step itself, and the start and the end of the operation (completion,
\* failure or cancellation), in any order with those actions, leave
\* selectedIds, readOnly and showOnlySelected as they are.
C26_PendingLeavesSelection ==
  /\ []EnabledWhilePending
  /\ [][/\ processingState' # processingState => storeVars' = storeVars
        /\ (\E toast \in {"none", "success", "warning"} : ProcessingSettles(toast))
             => storeVars' = storeVars
        /\ Pending =>
             /\ \A event \in allEvents :
                  ((\/ ClickEventBlock(event)
                    \/ ClickMobileEventCard(event)
                    \/ ClickSelectedTagRemove(event)) /\ ~readOnly)
                    => /\ selectedIds' = toggleArtist(selectedIds, event.id)
                       /\ Pending'
             /\ SwitchToEdit => (~readOnly' /\ Pending')
             /\ ClickFilterOption(showOnlySelected)
                  => (showOnlySelected' = ~showOnlySelected /\ Pending')]_vars

\* a share is pending and, since its start, the whole selection was removed
\* and the URL was written without it
C26_Witness ==
  /\ processingState = "sharing"
  /\ selectedIds = <<>>
  /\ ~readOnly
  /\ Synced
  /\ ~paramsHas(location, "ids")

----------------------------------------------------------------------------
(* The processing state returns to idle: C29 (SpecSettling) *)

\* C29: every started image export or native share, however it ends, sets
\* processingState back to idle, given that the external operations settle;
\* and while processingState is not idle no image export and no share with
\* image can be started.
C29_ProcessingReturnsToIdle ==
  /\ (processingState # "idle") ~> (processingState = "idle")
  /\ [](processingState # "idle" =>
          /\ ~ENABLED HandleNativeShare
          /\ \A instagram \in BOOLEAN : ~ENABLED HandleExportImage(instagram))
  /\ [][processingState # "idle" =>
          processingState' \in {processingState, "idle"}]_vars

\* an image export is under way, started from a shared agenda
C29_Witness ==
  /\ processingState = "downloading"
  /\ readOnly
  /\ Interactive
  /\ selectedEvents # {}

----------------------------------------------------------------------------
(* The selection and the lineup: C30 (Spec) *)

\* C30: each id in selectedIds is the id of an event of the lineup, and the
\* count shown to the user (selectedIds.size) is the number of events listed
\* in the agenda summary and handed to the exports.
C30_SelectionOfEvents ==
  /\ \A id \in Range(selectedIds) : \E event \in allEvents : event.id = id
  /\ Len(selectedIds) = Cardinality(selectedEvents)

====
